---------------------------- MODULE Spec2Model ----------------------------
(***************************************************************************)
(* A model of the gdelt-geojson-ai pipeline:                               *)
(*   - GDELTFetcher.fetch_daily_report / _try_fetch_report (look-back scan)*)
(*   - GDELTFetcher._parse_csv / _fetch_article_details /                  *)
(*     _extract_title_from_url (per-row enrichment)                        *)
(*   - EventSummarizer.summarize_events / _generate_summary                *)
(*   - GeoJSONGenerator.generate / _create_feature / save                  *)
(*   - main.py, x_to_geojson.py: the drivers, their handlers, exit status  *)
(*   - XFetcher.__init__ (credentials) and XFetcher._process_posts         *)
(*     (location candidates, geocoding, pacing)                            *)
(*                                                                         *)
(* Strings that the code inspects character by character (URLs, model      *)
(* responses) are sequences of one-character strings.  Dates in the        *)
(* feed's YYYYMMDD text form are the integer with those eight digits.      *)
(* Python's None is the string "None"; an absent dict key is a field that  *)
(* is not in the record's DOMAIN.                                          *)
(***************************************************************************)
EXTENDS Integers, Sequences, FiniteSets, TLC

VARIABLES
    \* ---- GDELTFetcher.fetch_daily_report ----
    start_date,        \* the argument, YYYYMMDD
    max_days_back,     \* self.max_days_back
    feed,              \* the remote feed: YYYYMMDD -> what a GET of that day's archive does
    days_back,         \* the loop variable of fetch_daily_report
    requests,          \* the dates requested so far, in order (the GETs issued)
    fetch_pc,          \* "loop" | "returned" | "raised"
    fetch_result,      \* the date whose parsed report was returned, or "None"
    fetch_error,       \* the exception that left fetch_daily_report, or "None"
    save_files,        \* self.save_files: keep the debug copies of what was downloaded
    \* ---- the drivers (main.py, x_to_geojson.py) from the summarization phase on ----
    driver,            \* "main" (installs signal_handler) | "x_to_geojson" (installs none)
                       \*   | "generate" (GeoJSONGenerator.generate called on a given list)
    pc,                \* "summarize" | "generate" | "save" | "done" | "exit" | "idle"
    exit_code,         \* the process exit code once pc = "exit" or "done", else -1
    interrupted_at,    \* the event being processed when SIGINT arrived, 0 if none arrived
    \* ---- EventSummarizer.summarize_events ----
    events,            \* events_data["events"]
    idx,               \* enumerate(..., 1): the event being processed
    llm_calls,         \* what each ollama.generate call so far did
    summarized_events, \* the local list of summarize_events
    sum_returned,      \* summarize_events has returned to its caller
    log,               \* the error records logged by the summarizer and the generator
    \* ---- GeoJSONGenerator.generate / save ----
    gen_input,         \* the list handed to generate
    gi,                \* the record generate is at
    features,          \* the local list of generate
    file,              \* the text of the file at the output path, as JSON tokens; <<>> if none
    old_file,          \* what that file held before the run
    \* ---- GDELTFetcher._parse_csv ----
    table,             \* the rows of the table in the downloaded archive
    df,                \* the DataFrame after read_csv(nrows=10) and sort_values
    row_i,             \* the row of df the loop is at
    page_calls,        \* what the page request of each _fetch_article_details call did
    parsed_events,     \* the local list "events" of _parse_csv
    details_raised,    \* _fetch_article_details raised to its caller at least once
    parse_pc,          \* "rows" | "returned" | "idle"
    \* ---- main() of main.py and of x_to_geojson.py, phase by phase ----
    run_driver,        \* "main" | "x_to_geojson"
    env,               \* the credential environment variables: name -> "unset" | "empty" | "set"
    phase,             \* the call main() is at: "construct_fetcher" | "construct_summarizer"
                       \*   | "fetch" | "summarize" | "generate" | "save" | "done" | "exit" | "idle"
    net,               \* the network requests issued so far, in order
    output_written,    \* the output file has been written
    status,            \* the exit status of the process, -1 while it runs
    ended_by,          \* "none" | "success" | "error" | "signal": what ended the run
    \* ---- XFetcher._process_posts ----
    posts,             \* raw_data['data']
    post_i,            \* the post the loop is at
    cand_i,            \* the candidate of that post the inner loop is at
    geocode_calls,     \* every geocoder call so far: the post, the name, what it did
    processed_posts,   \* the local list of _process_posts
    pacing,            \* "geocode" and "sleep" in the order they were executed
    posts_pc           \* "loop" | "returned" | "idle"

fetch_vars == <<start_date, max_days_back, feed, days_back, requests,
                fetch_pc, fetch_result, fetch_error, save_files>>

pipe_vars == <<driver, pc, exit_code, interrupted_at, events, idx, llm_calls,
               summarized_events, sum_returned, log, gen_input, gi, features, file,
               old_file>>

parse_vars == <<table, df, row_i, page_calls, parsed_events, details_raised, parse_pc>>

drv_vars == <<run_driver, env, phase, net, output_written, status, ended_by>>

post_vars == <<posts, post_i, cand_i, geocode_calls, processed_posts, pacing, posts_pc>>

vars == <<fetch_vars, pipe_vars, parse_vars, drv_vars, post_vars>>

-----------------------------------------------------------------------------
(* Bounds *)

MaxDaysBack == 3

MaxEvents == 3

MaxRecords == 3

MaxRows == 2

MaxUrlLen == 3

\* Rows of a table beyond the ten that read_csv takes.
MaxExtraRows == 1

\* Posts of a search response.
MaxPosts == 2

\* Words of a post's text.
MaxWords == 2

-----------------------------------------------------------------------------
(* Calendar arithmetic: datetime.strptime / strftime / timedelta *)

IsLeap(y) == (y % 4 = 0 /\ y % 100 # 0) \/ (y % 400 = 0)

DaysInMonth(y, m) ==
    IF m = 2 THEN (IF IsLeap(y) THEN 29 ELSE 28)
    ELSE IF m \in {4, 6, 9, 11} THEN 30 ELSE 31

\* datetime.strptime(start_date, '%Y%m%d')
strptime(s) == [year |-> s \div 10000, month |-> (s \div 100) % 100, day |-> s % 100]

\* current_date.strftime('%Y%m%d')
strftime(d) == d.year * 10000 + d.month * 100 + d.day

\* d - timedelta(days=1)
PrevDay(d) ==
    IF d.day > 1 THEN [d EXCEPT !.day = d.day - 1]
    ELSE IF d.month > 1
         THEN [d EXCEPT !.month = d.month - 1,
                        !.day = DaysInMonth(d.year, d.month - 1)]
         ELSE [year |-> d.year - 1, month |-> 12, day |-> 31]

RECURSIVE MinusDays(_, _)
\* start_dt - timedelta(days=n)
MinusDays(d, n) == IF n = 0 THEN d ELSE MinusDays(PrevDay(d), n - 1)

-----------------------------------------------------------------------------
(* The feed *)

\* What a GET of one day's archive can do:
\*   "ok"      200 and a well-formed archive
\*   "badzip"  200 and a payload that _parse_csv cannot read
\*   "404"     HTTPError with status 404
\*   "500"     HTTPError with another status
\*   "ssl"     requests.exceptions.SSLError
\*   "conn"    another requests.RequestException (connection error, ...)
Responses == {"ok", "badzip", "404", "500", "ssl", "conn"}

\* The start dates tried: a year boundary, a leap and a non-leap 1 March, mid-month.
StartDates == {20240101, 20240301, 20230301, 20240716}

\* The dates the feed is asked about in the model: the longest window and one day more.
FeedDates(s) == {strftime(MinusDays(strptime(s), k)) : k \in 0..MaxDaysBack}

\* requests.get(url) for the archive of `date`; a date the model's feed does
\* not list has no report.
Respond(date) == IF date \in DOMAIN feed THEN feed[date] ELSE "404"

-----------------------------------------------------------------------------
(* GDELTFetcher._try_fetch_report *)

\* The outcome of _try_fetch_report(date): the parsed report ("data"), None
\* ("none"), or an exception leaving the method ("raise").
TryFetchIgnoresStatus(date) ==
    LET r == Respond(date) IN
    CASE r = "ok"     -> [kind |-> "data", error |-> "None"]
      [] r = "badzip" -> [kind |-> "raise", error |-> "parse"]
      [] r = "404"    -> [kind |-> "none", error |-> "None"]
      [] r = "500"    -> [kind |-> "none", error |-> "None"]
      [] r = "ssl"    -> [kind |-> "raise", error |-> "ssl"]
      [] OTHER        -> [kind |-> "raise", error |-> "conn"]

\* A payload that cannot be parsed taken for "no report for that date".
TryFetchParseErrorIsNone(date) ==
    LET r == Respond(date) IN
    CASE r = "ok"     -> [kind |-> "data", error |-> "None"]
      [] r = "badzip" -> [kind |-> "none", error |-> "None"]
      [] r = "404"    -> [kind |-> "none", error |-> "None"]
      [] r = "500"    -> [kind |-> "raise", error |-> "http"]
      [] r = "ssl"    -> [kind |-> "raise", error |-> "ssl"]
      [] OTHER        -> [kind |-> "raise", error |-> "conn"]

_try_fetch_report(date) ==
    LET r == Respond(date) IN
    CASE r = "ok"     -> [kind |-> "data", error |-> "None"]
      [] r = "badzip" -> [kind |-> "raise", error |-> "parse"]
      [] r = "404"    -> [kind |-> "none", error |-> "None"]
      [] r = "500"    -> [kind |-> "raise", error |-> "http"]
      [] r = "ssl"    -> [kind |-> "raise", error |-> "ssl"]
      [] OTHER        -> [kind |-> "raise", error |-> "conn"]

-----------------------------------------------------------------------------
(* GDELTFetcher.fetch_daily_report *)

\* The summarizer and the generator before anything was handed to them.
PipeIdle ==
    /\ driver = "main"
    /\ pc = "idle"
    /\ exit_code = -1
    /\ interrupted_at = 0
    /\ events = <<>>
    /\ idx = 1
    /\ llm_calls = <<>>
    /\ summarized_events = <<>>
    /\ sum_returned = FALSE
    /\ log = <<>>
    /\ gen_input = <<>>
    /\ gi = 1
    /\ features = <<>>
    /\ file = <<>>
    /\ old_file = <<>>

\* _parse_csv is not running.
ParseIdle ==
    /\ table = <<>>
    /\ df = <<>>
    /\ row_i = 1
    /\ page_calls = <<>>
    /\ parsed_events = <<>>
    /\ details_raised = FALSE
    /\ parse_pc = "idle"

\* No driver is running.
DriverIdle ==
    /\ run_driver = "main"
    /\ env = <<>>
    /\ phase = "idle"
    /\ net = <<>>
    /\ output_written = FALSE
    /\ status = -1
    /\ ended_by = "none"

\* _process_posts is not running.
PostsIdle ==
    /\ posts = <<>>
    /\ post_i = 1
    /\ cand_i = 1
    /\ geocode_calls = <<>>
    /\ processed_posts = <<>>
    /\ pacing = <<>>
    /\ posts_pc = "idle"

\* fetch_daily_report is entered with some start date, window and feed.
ScanStart ==
    /\ PipeIdle
    /\ ParseIdle
    /\ DriverIdle
    /\ PostsIdle
    /\ start_date \in StartDates
    /\ max_days_back \in 0..MaxDaysBack
    /\ feed \in [FeedDates(start_date) -> Responses]
    /\ days_back = 0
    /\ requests = <<>>
    /\ fetch_pc = "loop"
    /\ fetch_result = "None"
    /\ fetch_error = "None"

\* main.py constructs GDELTFetcher(..., save_files=True).
InitFetch == ScanStart /\ save_files = TRUE

\* current_date_str of the iteration at days_back
CurrentDateSkipsADay == strftime(MinusDays(strptime(start_date), 2 * days_back))

CurrentDate == strftime(MinusDays(strptime(start_date), days_back))

\* for days_back in range(self.max_days_back)
LoopGuardOneMore == days_back <= max_days_back

LoopGuard == days_back < max_days_back

\* One iteration whose _try_fetch_report returns data: return it.
FetchFound ==
    /\ fetch_pc = "loop"
    /\ LoopGuard
    /\ _try_fetch_report(CurrentDate).kind = "data"
    /\ requests' = Append(requests, CurrentDate)
    /\ fetch_result' = CurrentDate
    /\ fetch_pc' = "returned"
    /\ UNCHANGED <<save_files, start_date, max_days_back, feed, days_back, fetch_error>>
    /\ UNCHANGED <<pipe_vars, parse_vars, drv_vars, post_vars>>

\* One iteration whose _try_fetch_report returns None: try the previous day.
FetchNone ==
    /\ fetch_pc = "loop"
    /\ LoopGuard
    /\ _try_fetch_report(CurrentDate).kind = "none"
    /\ requests' = Append(requests, CurrentDate)
    /\ days_back' = days_back + 1
    /\ UNCHANGED <<save_files, start_date, max_days_back, feed, fetch_pc, fetch_result, fetch_error>>
    /\ UNCHANGED <<pipe_vars, parse_vars, drv_vars, post_vars>>

\* One iteration whose _try_fetch_report raises: the exception leaves
\* fetch_daily_report, which has no handler.
FetchRaise ==
    /\ fetch_pc = "loop"
    /\ LoopGuard
    /\ _try_fetch_report(CurrentDate).kind = "raise"
    /\ requests' = Append(requests, CurrentDate)
    /\ fetch_error' = _try_fetch_report(CurrentDate).error
    /\ fetch_pc' = "raised"
    /\ UNCHANGED <<save_files, start_date, max_days_back, feed, days_back, fetch_result>>
    /\ UNCHANGED <<pipe_vars, parse_vars, drv_vars, post_vars>>

\* The loop ran out: raise Exception("No GDELT report found within the last N days")
FetchExhausted ==
    /\ fetch_pc = "loop"
    /\ ~LoopGuard
    /\ fetch_error' = "not_found_exhausted"
    /\ fetch_pc' = "raised"
    /\ UNCHANGED <<save_files, start_date, max_days_back, feed, days_back, requests, fetch_result>>
    /\ UNCHANGED <<pipe_vars, parse_vars, drv_vars, post_vars>>

NextFetch == FetchFound \/ FetchNone \/ FetchRaise \/ FetchExhausted

SpecFetch == InitFetch /\ [][NextFetch]_vars

\* The debug copies (save_files): the archive and its *_url.txt note are
\* written as soon as the download has succeeded, the table is extracted to
\* the data directory inside _parse_csv, and the parsed events are dumped
\* after it.  All of these writes are inside the try blocks, whose handlers
\* (HTTPError, SSLError, RequestException; log-and-raise in _parse_csv) do
\* not absorb an OSError: a write that fails leaves _try_fetch_report, and
\* so fetch_daily_report, as that OSError.
FetchDebugWriteFails ==
    /\ fetch_pc = "loop"
    /\ LoopGuard
    /\ save_files
    /\ Respond(CurrentDate) \in {"ok", "badzip"}
    /\ requests' = Append(requests, CurrentDate)
    /\ fetch_error' = "oserror"
    /\ fetch_pc' = "raised"
    /\ UNCHANGED <<save_files, start_date, max_days_back, feed, days_back, fetch_result>>
    /\ UNCHANGED <<pipe_vars, parse_vars, drv_vars, post_vars>>

\* The fetcher with either setting of save_files and a data directory whose
\* writes can fail.
InitFetchDebug == ScanStart /\ save_files \in BOOLEAN

NextFetchDebug == NextFetch \/ FetchDebugWriteFails

SpecFetchDebug == InitFetchDebug /\ [][NextFetchDebug]_vars

-----------------------------------------------------------------------------
(* Properties of fetch_daily_report *)

\* The number of days from 0001-01-01 to the date written YYYYMMDD (the
\* proleptic Gregorian ordinal), counted without stepping day by day.
DaysBeforeYear(y) == 365 * (y - 1) + ((y - 1) \div 4) - ((y - 1) \div 100) + ((y - 1) \div 400)

RECURSIVE DaysBeforeMonth(_, _)
DaysBeforeMonth(y, m) == IF m = 1 THEN 0 ELSE DaysBeforeMonth(y, m - 1) + DaysInMonth(y, m - 1)

Ordinal(c) ==
    DaysBeforeYear(c \div 10000) + DaysBeforeMonth(c \div 10000, (c \div 100) % 100) + (c % 100)

\* How many days before start_date the date c lies.
Age(c) == Ordinal(start_date) - Ordinal(c)

\* The dates of the look-back window: start_date and the max_days_back - 1 days before it.
Window == {c \in DOMAIN feed : Age(c) \in 0..(max_days_back - 1)}

\* The window's dates that have a report.
Available == {c \in Window : feed[c] = "ok"}

\* Every date of the window more recent than c answers 404.
Only404Before(c) == \A e \in Window : Age(e) < Age(c) => feed[e] = "404"

\* The i-th request is for the day i - 1 days before start_date.
ProbedBackward == \A i \in 1..Len(requests) : Age(requests[i]) = i - 1

C2_ExhaustedAfterWindow ==
    (\A c \in Window : feed[c] = "404") =>
        /\ fetch_pc # "returned"
        /\ \A i \in 1..Len(requests) : requests[i] \in Window
        /\ \A i, j \in 1..Len(requests) : requests[i] = requests[j] => i = j
        /\ fetch_pc = "raised" =>
              /\ fetch_error = "not_found_exhausted"
              /\ Len(requests) = max_days_back
              /\ {requests[i] : i \in 1..Len(requests)} = Window
        /\ fetch_pc = "loop" => Len(requests) = days_back

\* The whole window answered 404 and the fetch gave up, although the day
\* just outside the window has a report.
C2_Witness ==
    /\ fetch_pc = "raised"
    /\ fetch_error = "not_found_exhausted"
    /\ max_days_back = 2
    /\ Len(requests) = 2
    /\ \A c \in Window : feed[c] = "404"
    /\ \E c \in DOMAIN feed : Age(c) = 2 /\ feed[c] = "ok"

\* The exception each fatal transport failure raises.
FatalError(r) == CASE r = "500" -> "http" [] r = "ssl" -> "ssl" [] OTHER -> "conn"

\* C3: only a 404 makes the scan go on to the previous day; a non-404 HTTP
\* error status, an SSL error or a connection error on a probed date leaves
\* fetch_daily_report at once as that exception: it is the last request, and
\* nothing is returned, whatever older dates of the window hold.
C3_OnlyNotFoundContinues ==
    /\ \A i \in 1..Len(requests) : i < Len(requests) => Respond(requests[i]) = "404"
    /\ \A i \in 1..Len(requests) :
          Respond(requests[i]) \in {"500", "ssl", "conn"} =>
              /\ i = Len(requests)
              /\ fetch_pc = "raised"
              /\ fetch_error = FatalError(Respond(requests[i]))
              /\ fetch_result = "None"

\* A 500 on the second day probed ended the fetch although an older day of
\* the window has a report.
C3_Witness ==
    /\ fetch_pc = "raised"
    /\ fetch_error = "http"
    /\ Len(requests) = 2
    /\ \E c \in Available : Age(c) = 2

RECURSIVE ScanWithoutDebug(_)
\* What fetch_daily_report does from the k-th day back on when nothing is
\* written to the data directory: <<fetch_pc, fetch_result, fetch_error>>.
ScanWithoutDebug(k) ==
    IF k >= max_days_back THEN <<"raised", "None", "not_found_exhausted">>
    ELSE LET date == strftime(MinusDays(strptime(start_date), k))
             t == _try_fetch_report(date)
         IN CASE t.kind = "data" -> <<"returned", date, "None">>
              [] t.kind = "none" -> ScanWithoutDebug(k + 1)
              [] OTHER           -> <<"raised", "None", t.error>>

\* C11: whatever save_files is and whether or not a debug write fails,
\* fetch_daily_report ends as it does for the same feed when nothing is
\* written: it returns the same report or raises the same error.
C11_DebugFilesDoNotChangeResult ==
    fetch_pc \in {"returned", "raised"} =>
        <<fetch_pc, fetch_result, fetch_error>> = ScanWithoutDebug(0)

-----------------------------------------------------------------------------
(* Python helpers *)

\* dict.get(key, default)
Get(d, key, default) == IF key \in DOMAIN d THEN d[key] ELSE default

\* The characters str.strip() removes.
Whitespace == {" ", "\n", "\t"}

RECURSIVE lstrip(_)
lstrip(t) == IF t # <<>> /\ Head(t) \in Whitespace THEN lstrip(Tail(t)) ELSE t

RECURSIVE rstrip(_)
rstrip(t) ==
    IF t # <<>> /\ t[Len(t)] \in Whitespace THEN rstrip(SubSeq(t, 1, Len(t) - 1)) ELSE t

\* str.strip()
strip(t) == rstrip(lstrip(t))

\* The sequences over S of length at most n.
RECURSIVE SeqsUpTo(_, _)
SeqsUpTo(S, n) ==
    IF n = 0 THEN {<<>>}
    ELSE LET shorter == SeqsUpTo(S, n - 1)
         IN  shorter \cup {Append(q, x) : q \in {r \in shorter : Len(r) = n - 1}, x \in S}

-----------------------------------------------------------------------------
(* EventSummarizer *)

\* The events handed to summarize_events: one with every field, one with no
\* latitude, longitude or tone (as the events x_to_geojson.py builds have no
\* tone), one with no date.
EventTemplates ==
    { [description |-> "d1", location |-> "Paris", date |-> "20240101",
       latitude |-> 48, longitude |-> 2, tone |-> -3],
      [description |-> "d2", location |-> "Lima", date |-> "20240102"],
      [description |-> "d3", latitude |-> -12, longitude |-> -77] }

\* What one ollama.generate call does: raise, or return response['response'].
LLMOutcomes ==
    { [raises |-> TRUE, text |-> <<>>] } \cup
    { [raises |-> FALSE, text |-> t] :
        t \in { <<>>, <<" ">>, <<"a">>, <<"\n", "a", "b", " ">> } }

\* The error records the summarizer and the generator log.
LogGenerateSummary == [site |-> "_generate_summary", idx |-> 0]
LogSummarizeEvents(i) == [site |-> "summarize_events", idx |-> i]
LogGenerate == [site |-> "generate", idx |-> 0]

\* _generate_summary(event), given what the ollama.generate call does: the
\* result dict, or the exception re-raised after logging it.
\* The defaults written into the event (event.setdefault) instead of read
\* with event.get.
GenerateSummarySetsDefaults(event, o) ==
    LET filled == [k \in DOMAIN event \cup {"latitude", "longitude", "date", "tone"} |->
                      IF k \in DOMAIN event THEN event[k]
                      ELSE IF k = "date" THEN "" ELSE 0]
    IN
    IF o.raises
    THEN [raised |-> TRUE, logged |-> <<LogGenerateSummary>>, result |-> <<>>,
          event |-> filled]
    ELSE [raised |-> FALSE, logged |-> <<>>,
          result |-> << [summary |-> strip(o.text),
                         location |-> [lat |-> filled["latitude"],
                                       lon |-> filled["longitude"]],
                         timestamp |-> filled["date"],
                         tone |-> filled["tone"]] >>,
          event |-> filled]

_generate_summary(event, o) ==
    IF o.raises
    THEN [raised |-> TRUE, logged |-> <<LogGenerateSummary>>, result |-> <<>>,
          event |-> event]
    ELSE [raised |-> FALSE, logged |-> <<>>,
          result |-> << [summary |-> strip(o.text),
                         location |-> [lat |-> Get(event, "latitude", 0),
                                       lon |-> Get(event, "longitude", 0)],
                         timestamp |-> Get(event, "date", ""),
                         tone |-> Get(event, "tone", 0)] >>,
          event |-> event]

\* "if summary:" at line 58: the truth value of the dict _generate_summary
\* returned, which always has four keys.
Truthy(result) == DOMAIN result # {}

\* The body of the for loop of summarize_events for one event: what is
\* appended to summarized_events, what is logged, and the event dict (which
\* is passed by reference) as the body leaves it.
LoopBodyAbortsBatch(event, i, o) ==
    LET g == _generate_summary(event, o) IN
    IF g.raised
    THEN [append |-> <<>>, logged |-> g.logged \o <<LogSummarizeEvents(i)>>, go_on |-> FALSE,
          event |-> g.event]
    ELSE [append |-> IF Truthy(g.result[1]) THEN g.result ELSE <<>>,
          logged |-> <<>>, go_on |-> TRUE, event |-> g.event]

LoopBody(event, i, o) ==
    LET g == _generate_summary(event, o) IN
    IF g.raised
    THEN [append |-> <<>>, logged |-> g.logged \o <<LogSummarizeEvents(i)>>, go_on |-> TRUE,
          event |-> g.event]
    ELSE [append |-> IF Truthy(g.result[1]) THEN g.result ELSE <<>>,
          logged |-> <<>>, go_on |-> TRUE, event |-> g.event]

\* One iteration of the loop of summarize_events.
SummarizeEvent ==
    /\ pc = "summarize"
    /\ idx <= Len(events)
    /\ \E o \in LLMOutcomes :
         LET b == LoopBody(events[idx], idx, o) IN
         /\ llm_calls' = Append(llm_calls, o)
         /\ summarized_events' = summarized_events \o b.append
         /\ log' = log \o b.logged
         /\ idx' = IF b.go_on THEN idx + 1 ELSE Len(events) + 1
         /\ events' = [events EXCEPT ![idx] = b.event]
    /\ UNCHANGED <<old_file, driver, pc, exit_code, interrupted_at, sum_returned,
                   gen_input, gi, features, file>>
    /\ UNCHANGED <<fetch_vars, parse_vars, drv_vars, post_vars>>

\* The loop is over: summarize_events returns summarized_events and the
\* driver hands it to generate.
SummarizeReturn ==
    /\ pc = "summarize"
    /\ idx > Len(events)
    /\ sum_returned' = TRUE
    /\ gen_input' = summarized_events
    /\ pc' = "generate"
    /\ UNCHANGED <<old_file, driver, exit_code, interrupted_at, events, idx, llm_calls,
                   summarized_events, log, gi, features, file>>
    /\ UNCHANGED <<fetch_vars, parse_vars, drv_vars, post_vars>>

\* main.py installs signal_handler for SIGINT and SIGTERM; x_to_geojson.py
\* installs nothing, so that SIGINT raises KeyboardInterrupt.
HandlerInstalled == driver = "main"

\* SIGINT arrives while event idx is being processed.  Under main.py
\* signal_handler calls sys.exit(0): SystemExit is neither KeyboardInterrupt
\* nor an Exception, so it passes the handlers of summarize_events and of
\* main and ends the process with code 0.  Without the handler
\* KeyboardInterrupt is raised, which summarize_events catches (line 65):
\* it returns summarized_events as it stands.
Interrupt ==
    /\ pc = "summarize"
    /\ idx <= Len(events)
    /\ interrupted_at' = idx
    /\ IF HandlerInstalled
       THEN /\ pc' = "exit"
            /\ exit_code' = 0
            /\ UNCHANGED <<sum_returned, gen_input>>
       ELSE /\ sum_returned' = TRUE
            /\ gen_input' = summarized_events
            /\ pc' = "generate"
            /\ UNCHANGED exit_code
    /\ UNCHANGED <<old_file, driver, events, idx, llm_calls, summarized_events, log,
                   gi, features, file>>
    /\ UNCHANGED <<fetch_vars, parse_vars, drv_vars, post_vars>>

-----------------------------------------------------------------------------
(* GeoJSONGenerator *)

\* The records handed to generate when it is called on its own: a complete
\* one, one at (0, 0), and ones with a missing key ("location", the "lon" of
\* the location, "tone", "summary").
RecordTemplates ==
    { [summary |-> <<"a">>, location |-> [lat |-> 48, lon |-> 2],
       timestamp |-> "20240101", tone |-> -3],
      [summary |-> <<"b">>, location |-> [lat |-> 0, lon |-> 0],
       timestamp |-> "", tone |-> 0],
      [summary |-> <<"c">>, timestamp |-> "20240102", tone |-> 5],
      [summary |-> <<"d">>, location |-> [lat |-> 7],
       timestamp |-> "20240103", tone |-> 1],
      [summary |-> <<"e">>, location |-> [lat |-> -12, lon |-> -77],
       timestamp |-> "20240104"],
      [location |-> [lat |-> 1, lon |-> 3], timestamp |-> "20240105", tone |-> 2] }

\* Point((lon, lat))
Point(lon, lat) == [type |-> "Point", coordinates |-> <<lon, lat>>]

\* Feature(geometry=point, properties=properties)
Feature(geometry, properties) ==
    [type |-> "Feature", geometry |-> geometry, properties |-> properties]

\* FeatureCollection(features)
FeatureCollection(fs) == [type |-> "FeatureCollection", features |-> fs]

\* The keys whose subscription in _create_feature raises KeyError when absent.
HasRequiredKeys(event) ==
    /\ "location" \in DOMAIN event
    /\ "lon" \in DOMAIN event["location"]
    /\ "lat" \in DOMAIN event["location"]
    /\ "summary" \in DOMAIN event
    /\ "timestamp" \in DOMAIN event
    /\ "tone" \in DOMAIN event

\* _create_feature(event): the feature, or a KeyError.
CreateFeatureLatFirst(event) ==
    IF ~HasRequiredKeys(event)
    THEN [raised |-> TRUE, feature |-> <<>>, event |-> event]
    ELSE [raised |-> FALSE, event |-> event,
          feature |-> << Feature(Point(event["location"]["lat"], event["location"]["lon"]),
                                 [summary |-> event["summary"],
                                  timestamp |-> event["timestamp"],
                                  tone |-> event["tone"]]) >>]

CreateFeatureDefaultsLocation(event) ==
    LET loc == Get(event, "location", [lat |-> 0, lon |-> 0]) IN
    IF ~({"summary", "timestamp", "tone"} \subseteq DOMAIN event /\ {"lat", "lon"} \subseteq DOMAIN loc)
    THEN [raised |-> TRUE, feature |-> <<>>, event |-> event]
    ELSE [raised |-> FALSE, event |-> event,
          feature |-> << Feature(Point(loc["lon"], loc["lat"]),
                                 [summary |-> event["summary"],
                                  timestamp |-> event["timestamp"],
                                  tone |-> event["tone"]]) >>]

_create_feature(event) ==
    IF ~HasRequiredKeys(event)
    THEN [raised |-> TRUE, feature |-> <<>>, event |-> event]
    ELSE [raised |-> FALSE, event |-> event,
          feature |-> << Feature(Point(event["location"]["lon"], event["location"]["lat"]),
                                 [summary |-> event["summary"],
                                  timestamp |-> event["timestamp"],
                                  tone |-> event["tone"]]) >>]

\* One iteration of the loop of generate: append the feature, or log the
\* exception and go on.
GenerateStep ==
    /\ pc = "generate"
    /\ gi <= Len(gen_input)
    /\ LET c == _create_feature(gen_input[gi]) IN
         /\ features' = features \o c.feature
         /\ log' = IF c.raised THEN Append(log, LogGenerate) ELSE log
         /\ gen_input' = [gen_input EXCEPT ![gi] = c.event]
    /\ gi' = gi + 1
    /\ UNCHANGED <<old_file, driver, pc, exit_code, interrupted_at, events, idx, llm_calls,
                   summarized_events, sum_returned, file>>
    /\ UNCHANGED <<fetch_vars, parse_vars, drv_vars, post_vars>>

\* generate returns FeatureCollection(features); save is called with it.
GenerateReturn ==
    /\ pc = "generate"
    /\ gi > Len(gen_input)
    /\ pc' = "save"
    /\ UNCHANGED <<old_file, driver, exit_code, interrupted_at, events, idx, llm_calls,
                   summarized_events, sum_returned, log, gen_input, gi, features, file>>
    /\ UNCHANGED <<fetch_vars, parse_vars, drv_vars, post_vars>>

RECURSIVE DumpFeatures(_)
DumpFeatures(fs) ==
    IF fs = <<>> THEN <<>>
    ELSE << Head(fs).type, Head(fs).geometry.type,
            Head(fs).geometry.coordinates[1], Head(fs).geometry.coordinates[2],
            Head(fs).properties.summary, Head(fs).properties.timestamp,
            Head(fs).properties.tone >> \o DumpFeatures(Tail(fs))

\* json.dump(geojson_data, f, indent=2): the values written, in the order of
\* the document ("type", then each feature's "type", geometry, properties).
json_dump(fc) == <<fc.type>> \o DumpFeatures(fc.features)

RECURSIVE LoadFeatures(_)
LoadFeatures(toks) ==
    IF Len(toks) < 7 THEN <<>>
    ELSE << [type |-> toks[1],
             geometry |-> [type |-> toks[2], coordinates |-> <<toks[3], toks[4]>>],
             properties |-> [summary |-> toks[5], timestamp |-> toks[6], tone |-> toks[7]]] >>
         \o LoadFeatures(SubSeq(toks, 8, Len(toks)))

\* json.load of the file's text.
json_load(toks) == [type |-> toks[1], features |-> LoadFeatures(Tail(toks))]

\* A document left at the output path by an earlier run.
OldFile ==
    json_dump(FeatureCollection(<< Feature(Point(7, 7),
                                           [summary |-> <<"o">>, timestamp |-> "20230101",
                                            tone |-> 0]) >>))

\* save with the file opened for appending.
SaveAppends ==
    /\ pc = "save"
    /\ file' = file \o json_dump(FeatureCollection(features))
    /\ pc' = "done"
    /\ exit_code' = 0
    /\ UNCHANGED <<old_file, driver, interrupted_at, events, idx, llm_calls,
                   summarized_events, sum_returned, log, gen_input, gi, features>>
    /\ UNCHANGED <<fetch_vars, parse_vars, drv_vars, post_vars>>

\* save: open(output_file, 'w') truncates whatever the path held and the
\* document is written.
SaveOk ==
    /\ pc = "save"
    /\ file' = json_dump(FeatureCollection(features))
    /\ pc' = "done"
    /\ exit_code' = 0
    /\ UNCHANGED <<old_file, driver, interrupted_at, events, idx, llm_calls,
                   summarized_events, sum_returned, log, gen_input, gi, features>>
    /\ UNCHANGED <<fetch_vars, parse_vars, drv_vars, post_vars>>

\* save: open() fails (the path keeps what it held) or, the file opened and
\* truncated, a write fails (the text is cut short); the error is logged
\* and re-raised, and the process ends with code 1 (main.py: sys.exit(1);
\* x_to_geojson.py: the uncaught exception).
SaveFail ==
    /\ pc = "save"
    /\ \/ file' = file
       \/ \E n \in {0, Len(json_dump(FeatureCollection(features))) - 1} :
            file' = SubSeq(json_dump(FeatureCollection(features)), 1, n)
    /\ log' = Append(log, [site |-> "save", idx |-> 0])
    /\ pc' = "exit"
    /\ exit_code' = 1
    /\ UNCHANGED <<old_file, driver, interrupted_at, events, idx, llm_calls,
                   summarized_events, sum_returned, gen_input, gi, features>>
    /\ UNCHANGED <<fetch_vars, parse_vars, drv_vars, post_vars>>

-----------------------------------------------------------------------------
(* The pipeline from the summarization phase on *)

\* fetch_daily_report is not running.
FetchIdle ==
    /\ start_date = 20240101
    /\ max_days_back = 0
    /\ feed = [d \in {20240101} |-> "404"]
    /\ days_back = 0
    /\ requests = <<>>
    /\ fetch_pc = "idle"
    /\ fetch_result = "None"
    /\ fetch_error = "None"
    /\ save_files = TRUE

\* Either a driver calls summarize_events on the fetched events, or
\* generate is called on a list of records.  main.py always writes
\* events.geojson, where an earlier run has left its document;
\* x_to_geojson.py writes x_events_<timestamp>.geojson, a new name.
Init ==
    /\ FetchIdle
    /\ ParseIdle
    /\ DriverIdle
    /\ PostsIdle
    /\ exit_code = -1
    /\ interrupted_at = 0
    /\ idx = 1
    /\ llm_calls = <<>>
    /\ summarized_events = <<>>
    /\ sum_returned = FALSE
    /\ log = <<>>
    /\ gi = 1
    /\ features = <<>>
    /\ \/ /\ driver \in {"main", "x_to_geojson"}
          /\ file = (IF driver = "main" THEN OldFile ELSE <<>>)
          /\ pc = "summarize"
          /\ events \in SeqsUpTo(EventTemplates, MaxEvents)
          /\ gen_input = <<>>
       \/ /\ driver = "generate"
          /\ file \in {<<>>, OldFile}
          /\ pc = "generate"
          /\ events = <<>>
          /\ gen_input \in SeqsUpTo(RecordTemplates, MaxRecords)
    /\ old_file = file

Next ==
    \/ SummarizeEvent
    \/ SummarizeReturn
    \/ Interrupt
    \/ GenerateStep
    \/ GenerateReturn
    \/ SaveOk
    \/ SaveFail

Spec == Init /\ [][Next]_vars

-----------------------------------------------------------------------------
(* Properties of summarize_events, generate and save *)

Indices(n) == [i \in 1..n |-> i]

\* The events processed so far whose ollama.generate call returned, and
\* those whose call raised, in input order.
OkCalls == SelectSeq(Indices(Len(llm_calls)), LAMBDA i : ~llm_calls[i].raises)
FailedCalls == SelectSeq(Indices(Len(llm_calls)), LAMBDA i : llm_calls[i].raises)

\* The error records of the summarizer (_generate_summary and summarize_events).
SummarizerLog ==
    SelectSeq(log, LAMBDA r : r.site \in {"_generate_summary", "summarize_events"})

\* The loop goes through every event, whatever fails, and summarized_events
\* holds exactly the record of each event whose call returned, in input order.
OneRecordPerNonFailingEvent ==
    /\ pc = "summarize" => Len(llm_calls) = idx - 1
    /\ (sum_returned /\ interrupted_at = 0) => Len(llm_calls) = Len(events)
    /\ Len(summarized_events) = Len(OkCalls)
    /\ \A k \in 1..Len(OkCalls) :
          summarized_events[k] =
              _generate_summary(events[OkCalls[k]], llm_calls[OkCalls[k]]).result[1]

\* C4 (as amended): summarize_events never aborts on a failing model call;
\* the returned list holds exactly one record for every non-failing event, in
\* input order, none for a failing one; each failing event k is logged once
\* by summarize_events ("Failed to summarize event k"), right after the
\* error record that _generate_summary logs before re-raising: two error
\* records per failing event.
C4_IndependentEvents ==
    driver # "generate" =>
        /\ OneRecordPerNonFailingEvent
        /\ Len(SummarizerLog) = 2 * Len(FailedCalls)
        /\ \A k \in 1..Len(FailedCalls) :
              /\ SummarizerLog[2 * k - 1] = LogGenerateSummary
              /\ SummarizerLog[2 * k] = LogSummarizeEvents(FailedCalls[k])

\* C4 as stated: the same, with exactly one error record logged for each
\* failing event.
C4_OneLogRecordPerFailure ==
    driver # "generate" =>
        /\ OneRecordPerNonFailingEvent
        /\ Len(SummarizerLog) = Len(FailedCalls)

\* Three different events, the second of which failed, and the batch returned.
C4_Witness ==
    /\ sum_returned
    /\ interrupted_at = 0
    /\ Len(events) = 3
    /\ events[1] # events[3]
    /\ llm_calls[2].raises
    /\ ~llm_calls[1].raises
    /\ ~llm_calls[3].raises
    /\ Len(summarized_events) = 2

\* C5: when SIGINT arrives under main.py (whose handlers are installed)
\* while event k is being processed, summarize_events returns the summaries
\* produced for the events before k.
C5_PartialResultsReturned ==
    (driver = "main" /\ interrupted_at > 0 /\ summarized_events # <<>>) =>
        /\ sum_returned
        /\ gen_input = summarized_events
        /\ Len(llm_calls) = interrupted_at - 1

\* C10: the summary of every record of summarized_events is a non-empty string.
C10_SummaryNonEmpty ==
    \A k \in 1..Len(summarized_events) : summarized_events[k].summary # <<>>

\* A record has every key _create_feature reads.
Complete(r) ==
    /\ {"summary", "timestamp", "tone", "location"} \subseteq DOMAIN r
    /\ {"lat", "lon"} \subseteq DOMAIN r.location

\* The records among the first n handed to generate that are complete.
Converted(n) == SelectSeq(Indices(n), LAMBDA i : Complete(gen_input[i]))

GenerateLog == SelectSeq(log, LAMBDA r : r.site = "generate")

\* C6: once generate and save are done, the document read back from the file
\* is a FeatureCollection with exactly one Point feature for every complete
\* input record, in input order, with coordinates [lon, lat] and the
\* record's summary, timestamp and tone; every incomplete record was logged
\* and skipped, and the loop went through the whole list.
C6_RoundTrip ==
    /\ pc \in {"save", "done"} => gi = Len(gen_input) + 1
    /\ pc = "done" =>
          LET doc == json_load(file)
              conv == Converted(Len(gen_input))
          IN  /\ doc.type = "FeatureCollection"
              /\ Len(doc.features) = Len(conv)
              /\ Len(GenerateLog) = Len(gen_input) - Len(conv)
              /\ \A k \in 1..Len(conv) :
                    LET f == doc.features[k]
                        r == gen_input[conv[k]]
                    IN  /\ f.type = "Feature"
                        /\ f.geometry.type = "Point"
                        /\ f.geometry.coordinates = <<r.location.lon, r.location.lat>>
                        /\ f.properties = [summary |-> r.summary,
                                           timestamp |-> r.timestamp,
                                           tone |-> r.tone]

\* generate was called on a complete record, an incomplete one and another
\* complete one, and the file was written.
C6_Witness ==
    /\ pc = "done"
    /\ driver = "generate"
    /\ Len(gen_input) = 3
    /\ Complete(gen_input[1])
    /\ ~Complete(gen_input[2])
    /\ Complete(gen_input[3])
    /\ gen_input[1] # gen_input[3]
    /\ gen_input[3].location.lon # gen_input[3].location.lat

\* C7 (as amended): an event with no latitude / longitude yields a
\* SummaryRecord whose location is (0, 0), and one with no tone a tone of 0;
\* a record at (0, 0) becomes a feature with coordinates [0, 0]; a
\* SummaryRecord that has no location field becomes no feature at all:
\* generate logs the KeyError and skips it.
C7_DefaultsAndSkips ==
    /\ driver # "generate" =>
          \A k \in 1..Len(OkCalls) :
              LET e == events[OkCalls[k]]
                  r == summarized_events[k]
              IN  /\ "latitude" \notin DOMAIN e => r.location.lat = 0
                  /\ "longitude" \notin DOMAIN e => r.location.lon = 0
                  /\ "tone" \notin DOMAIN e => r.tone = 0
    /\ pc \in {"generate", "save", "done"} =>
          LET conv == Converted(gi - 1) IN
          /\ Len(features) = Len(conv)
          /\ Len(GenerateLog) = (gi - 1) - Len(conv)
          /\ \A k \in 1..Len(conv) :
                /\ "location" \in DOMAIN gen_input[conv[k]]
                /\ features[k].properties.summary = gen_input[conv[k]].summary
                /\ gen_input[conv[k]].location = [lat |-> 0, lon |-> 0]
                      => features[k].geometry.coordinates = <<0, 0>>

\* C7 as stated: once generate is over, every input record with no location
\* field has a feature with coordinates [0, 0].
C7_NoLocationIsOrigin ==
    (pc \in {"save", "done"}) =>
        \A i \in 1..Len(gen_input) :
            "location" \notin DOMAIN gen_input[i] =>
                \E k \in 1..Len(features) :
                    /\ features[k].geometry.coordinates = <<0, 0>>
                    /\ features[k].properties.summary = gen_input[i].summary

\* generate went through a record with no location and a record at (0, 0):
\* only the second became a feature.
C7_Witness ==
    /\ pc = "save"
    /\ Len(gen_input) = 2
    /\ "location" \notin DOMAIN gen_input[1]
    /\ Complete(gen_input[2])
    /\ gen_input[2].location = [lat |-> 0, lon |-> 0]
    /\ Len(features) = 1
    /\ features[1].geometry.coordinates = <<0, 0>>

\* C19: no step of summarize_events changes the event list it was given or
\* any event of it, and no step of generate (or of save after it) changes
\* the record list it was given or any record of it, whether or not an item
\* fails; what the stages build (summarized_events, features) only grows.
C19_InputsUnchanged ==
    [][ /\ events' = events
        /\ pc \in {"generate", "save"} =>
              (gen_input' = gen_input /\ summarized_events' = summarized_events)
        /\ \A k \in 1..Len(summarized_events) :
              k <= Len(summarized_events') /\ summarized_events'[k] = summarized_events[k]
        /\ \A k \in 1..Len(features) :
              k <= Len(features') /\ features'[k] = features[k] ]_vars

\* Of two events one failed in the summarizer and the other, which lacks
\* keys the summary record defaults, became a feature.
C19_Witness ==
    /\ pc = "save"
    /\ driver = "x_to_geojson"
    /\ Len(events) = 2
    /\ Len(FailedCalls) = 1
    /\ Len(features) = 1
    /\ \E i \in 1..2 : "tone" \notin DOMAIN events[i] /\ i \in {OkCalls[k] : k \in 1..Len(OkCalls)}

\* The error records of save.
SaveLog == SelectSeq(log, LAMBDA r : r.site = "save")

\* C13: save leaves exactly the document of the collection at the output
\* path, whatever the path held before; when the file cannot be opened or
\* written, the error is logged once and raised to the caller (the run ends
\* with a failure), nothing is tried again and the path is left as the
\* failure left it: with what it held before, or with a cut-short text.
\* Before save nothing is written.
C13_SaveOverwritesOrRaises ==
    LET doc == json_dump(FeatureCollection(features)) IN
    /\ pc \in {"summarize", "generate", "save"} => (file = old_file /\ SaveLog = <<>>)
    /\ pc = "done" => (file = doc /\ SaveLog = <<>> /\ exit_code = 0)
    /\ SaveLog # <<>> =>
          /\ Len(SaveLog) = 1
          /\ log[Len(log)].site = "save"
          /\ pc = "exit"
          /\ exit_code = 1
          /\ file # doc
          /\ \/ file = old_file
             \/ \E n \in 0..(Len(doc) - 1) : file = SubSeq(doc, 1, n)

\* main.py saved a collection of two features over the document an earlier
\* run had left at the path.
C13_Witness ==
    /\ pc = "done"
    /\ driver = "main"
    /\ old_file = OldFile
    /\ Len(features) = 2
    /\ file = json_dump(FeatureCollection(features))

-----------------------------------------------------------------------------
(* More Python string helpers *)

\* None, and the float NaN pandas gives for an empty cell, where a string is expected.
None == <<"<None>">>
NaN == <<"<NaN>">>

\* The truth value of None, of "" and of any other string.
PyTruthy(v) == v # None /\ v # <<>>

\* a or b
Or(a, b) == IF PyTruthy(a) THEN a ELSE b

RECURSIVE SplitOn(_, _)
\* t.split(sep)
SplitOn(t, sep) ==
    IF \A i \in 1..Len(t) : t[i] # sep
    THEN <<t>>
    ELSE LET i == CHOOSE i \in 1..Len(t) : t[i] = sep /\ \A j \in 1..(i - 1) : t[j] # sep
         IN  <<SubSeq(t, 1, i - 1)>> \o SplitOn(SubSeq(t, i + 1, Len(t)), sep)

\* t.replace(a, b), for single characters
replace(t, a, b) == [i \in 1..Len(t) |-> IF t[i] = a THEN b ELSE t[i]]

NonEmptyParts(parts) == SelectSeq(parts, LAMBDA q : q # <<>>)

\* t.split(): the words between runs of whitespace
SplitWords(t) ==
    NonEmptyParts(SplitOn([i \in 1..Len(t) |-> IF t[i] \in Whitespace THEN " " ELSE t[i]], " "))

LowerLetters == <<"a", "b", "c", "d", "e", "f", "g", "h", "i", "j", "k", "l", "m", "n", "o", "p", "q", "r", "s", "t", "u", "v", "w", "x", "y", "z">>
UpperLetters == <<"A", "B", "C", "D", "E", "F", "G", "H", "I", "J", "K", "L", "M", "N", "O", "P", "Q", "R", "S", "T", "U", "V", "W", "X", "Y", "Z">>

IsLower(c) == \E i \in 1..Len(LowerLetters) : LowerLetters[i] = c
IsUpper(c) == \E i \in 1..Len(UpperLetters) : UpperLetters[i] = c
ToUpper(c) == IF IsLower(c) THEN UpperLetters[CHOOSE i \in 1..Len(LowerLetters) : LowerLetters[i] = c] ELSE c
ToLower(c) == IF IsUpper(c) THEN LowerLetters[CHOOSE i \in 1..Len(UpperLetters) : UpperLetters[i] = c] ELSE c

\* word.capitalize(): the first character in upper case, the rest in lower case
capitalize(w) == [i \in 1..Len(w) |-> IF i = 1 THEN ToUpper(w[i]) ELSE ToLower(w[i])]

RECURSIVE Join(_, _)
\* sep.join(words)
Join(words, sep) ==
    IF words = <<>> THEN <<>>
    ELSE IF Len(words) = 1 THEN words[1]
    ELSE words[1] \o <<sep>> \o Join(Tail(words), sep)

-----------------------------------------------------------------------------
(* GDELTFetcher._extract_title_from_url, _fetch_article_details, _parse_csv *)

NoTitleAvailable == <<"N", "o", " ", "t", "i", "t", "l", "e", " ", "a", "v", "a", "i", "l", "a", "b", "l", "e">>

\* _extract_title_from_url(url).  A url that is not a string (NaN) has no
\* split (AttributeError) and a url with no non-empty part has no last part
\* (IndexError): the bare except returns "No title available".
_extract_title_from_url(url) ==
    IF url = NaN THEN NoTitleAvailable
    ELSE LET url_parts == NonEmptyParts(SplitOn(url, "/")) IN
         IF url_parts = <<>> THEN NoTitleAvailable
         ELSE LET replaced == replace(replace(url_parts[Len(url_parts)], "-", " "), "_", " ")
                  title == strip(SplitOn(replaced, ".")[1])
              IN  Join([i \in 1..Len(SplitWords(title)) |->
                            capitalize(SplitWords(title)[i])], " ")

\* What the request of an article page and its parsing do:
\*   "http_error"   raise_for_status raises (a 4xx / 5xx status)
\*   "conn_error"   requests.get raises (timeout, connection, invalid URL)
\*   "parse_error"  BeautifulSoup or the extraction raises
\*   "ok"           the page is parsed; title and description as extracted
PageOutcomes ==
    { [kind |-> k, title |-> None, description |-> None] :
        k \in {"http_error", "conn_error", "parse_error"} } \cup
    { [kind |-> "ok", title |-> t, description |-> d] :
        t \in {None, <<"T", "i">>}, d \in {None, <<>>, <<"D", "e">>} }

\* What the page request of a row can do: a URL cell that is empty (NaN) or
\* an empty string is rejected by requests.get before anything is sent
\* (MissingSchema, a RequestException).
PageOutcomesOf(url) ==
    IF url \in {NaN, <<>>}
    THEN {[kind |-> "conn_error", title |-> None, description |-> None]}
    ELSE PageOutcomes

\* _fetch_article_details(url): the details dict, {} after any exception.
\* `raised` tells whether an exception leaves the method.
FetchDetailsCatchesRequestsOnly(url, page) ==
    IF url = NaN \/ page.kind \in {"http_error", "conn_error"}
    THEN [raised |-> FALSE, details |-> <<>>]
    ELSE IF page.kind = "parse_error"
    THEN [raised |-> TRUE, details |-> <<>>]
    ELSE [raised |-> FALSE,
          details |-> [title |-> page.title, description |-> page.description,
                       published_date |-> None, location |-> None, content |-> None]]

_fetch_article_details(url, page) ==
    IF url = NaN \/ page.kind # "ok"
    THEN [raised |-> FALSE, details |-> <<>>]
    ELSE [raised |-> FALSE,
          details |-> [title |-> page.title, description |-> page.description,
                       published_date |-> None, location |-> None, content |-> None]]

\* The body of the row loop of _parse_csv: the event appended for one row.
RowBody(row, page) ==
    LET url == row.SOURCEURL
        a == _fetch_article_details(url, page)
    IN  IF a.raised
        THEN [raised |-> TRUE,
              event |-> [url |-> url, dateadded |-> row.DATEADDED,
                         description |-> _extract_title_from_url(url),
                         article_title |-> None]]
        ELSE [raised |-> FALSE,
              event |-> [url |-> url, dateadded |-> row.DATEADDED,
                         description |-> Or(Get(a.details, "description", None),
                                            Or(Get(a.details, "title", None),
                                               _extract_title_from_url(url))),
                         article_title |-> Get(a.details, "title", None)]]

\* nrows=10 of pd.read_csv
NROWS == 10

\* pd.read_csv(..., nrows=10): the first rows of the table
read_csv(rows) == SubSeq(rows, 1, IF Len(rows) < NROWS THEN Len(rows) ELSE NROWS)

RECURSIVE InsertDesc(_, _)
\* Insert row r into rows (sorted by DATEADDED, descending) after the rows
\* that are not older than it.
InsertDesc(rows, r) ==
    IF rows = <<>> THEN <<r>>
    ELSE IF Head(rows).DATEADDED >= r.DATEADDED
         THEN <<Head(rows)>> \o InsertDesc(Tail(rows), r)
         ELSE <<r>> \o rows

RECURSIVE SortDesc(_)
\* df.sort_values('DATEADDED', ascending=False); rows of equal DATEADDED keep
\* their order (at most 10 rows are sorted).
SortDesc(rows) ==
    IF rows = <<>> THEN <<>>
    ELSE InsertDesc(SortDesc(SubSeq(rows, 1, Len(rows) - 1)), rows[Len(rows)])

\* The characters of the paths tried exhaustively.
UrlChars == {"/", ".", "-", "_", "a", "B"}

UrlBase == <<"h", "t", "t", "p", ":", "/", "/", "x", "/">>

ExampleUrl == <<"h", "t", "t", "p", "s", ":", "/", "/", "e", "x", ".", "c", "o", "m", "/", "b", "r", "e", "a", "k", "i", "n", "g", "-", "n", "e", "w", "s", "-", "e", "v", "e", "n", "t">>

\* Source URLs: the spec's example, an empty cell (NaN), an empty string, and
\* every path of at most MaxUrlLen characters under http://x/.
SampleUrls == {ExampleUrl, NaN, <<>>}

ShortUrls == {UrlBase \o q : q \in SeqsUpTo(UrlChars, MaxUrlLen)}

SampleRows == {[SOURCEURL |-> u, DATEADDED |-> t] : u \in SampleUrls, t \in {1, 2}}

\* Tables with more rows than read_csv takes: NROWS + 1 .. NROWS + MaxExtraRows
\* rows with an empty URL cell, each added at time 1 or 2.
LongTables ==
    UNION { [1..n -> {[SOURCEURL |-> NaN, DATEADDED |-> t] : t \in {1, 2}}] :
              n \in (NROWS + 1)..(NROWS + MaxExtraRows) }

InitParse ==
    /\ FetchIdle
    /\ PipeIdle
    /\ DriverIdle
    /\ PostsIdle
    /\ table \in SeqsUpTo(SampleRows, MaxRows)
                   \cup {<<[SOURCEURL |-> u, DATEADDED |-> 1]>> : u \in ShortUrls}
                   \cup LongTables
    /\ df = <<>>
    /\ row_i = 1
    /\ page_calls = <<>>
    /\ parsed_events = <<>>
    /\ details_raised = FALSE
    /\ parse_pc = "read"

\* The table is read and sorted.
ParseRead ==
    /\ parse_pc = "read"
    /\ df' = SortDesc(read_csv(table))
    /\ parse_pc' = "rows"
    /\ UNCHANGED <<table, row_i, page_calls, parsed_events, details_raised>>
    /\ UNCHANGED <<fetch_vars, pipe_vars, drv_vars, post_vars>>

\* One iteration of the row loop.
ParseRow ==
    /\ parse_pc = "rows"
    /\ row_i <= Len(df)
    /\ \E page \in PageOutcomesOf(df[row_i].SOURCEURL) :
         LET b == RowBody(df[row_i], page) IN
         /\ page_calls' = Append(page_calls, page)
         /\ parsed_events' = Append(parsed_events, b.event)
         /\ details_raised' = (details_raised \/ b.raised)
    /\ row_i' = row_i + 1
    /\ UNCHANGED <<table, df, parse_pc>>
    /\ UNCHANGED <<fetch_vars, pipe_vars, drv_vars, post_vars>>

\* return {"events": events}
ParseReturn ==
    /\ parse_pc = "rows"
    /\ row_i > Len(df)
    /\ parse_pc' = "returned"
    /\ UNCHANGED <<table, df, row_i, page_calls, parsed_events, details_raised>>
    /\ UNCHANGED <<fetch_vars, pipe_vars, drv_vars, post_vars>>

NextParse == ParseRead \/ ParseRow \/ ParseReturn

SpecParse == InitParse /\ [][NextParse]_vars

-----------------------------------------------------------------------------
(* Properties of the enrichment *)

BreakingNewsEvent == <<"B", "r", "e", "a", "k", "i", "n", "g", " ", "N", "e", "w", "s", " ", "E", "v", "e", "n", "t">>

\* No character of t is a separator the title derivation removes, and every
\* word of t starts with a character that is not a lower-case letter and
\* goes on without upper-case letters.
TitleShaped(t) ==
    /\ \A i \in 1..Len(t) : t[i] \notin {"/", "-", "_", "."}
    /\ \A i \in 1..Len(t) :
          IF i = 1 \/ t[i - 1] = " " THEN ~IsLower(t[i]) /\ t[i] # " " ELSE ~IsUpper(t[i])

\* C8: _fetch_article_details never raises to _parse_csv; when the page
\* request or its parsing fails (a non-2xx status included) the details are
\* empty, and the event of that row is still emitted, with the URL-derived
\* title as its description: no '/', '-', '_' or '.', every word
\* capitalized; https://ex.com/breaking-news-event gives "Breaking News Event".
C8_FallbackTitleOnFailure ==
    /\ ~details_raised
    /\ Len(parsed_events) = Len(page_calls)
    /\ parse_pc = "returned" => Len(parsed_events) = Len(df)
    /\ \A i \in 1..Len(parsed_events) :
          page_calls[i].kind # "ok" =>
              /\ parsed_events[i].url = df[i].SOURCEURL
              /\ parsed_events[i].article_title = None
              /\ parsed_events[i].description = _extract_title_from_url(df[i].SOURCEURL)
              /\ parsed_events[i].description # NoTitleAvailable
                    => TitleShaped(parsed_events[i].description)
              /\ df[i].SOURCEURL = ExampleUrl
                    => parsed_events[i].description = BreakingNewsEvent

\* The page of the spec's example URL answered with an error status and the
\* event was emitted as "Breaking News Event".
C8_Witness ==
    /\ parse_pc = "returned"
    /\ \E i \in 1..Len(parsed_events) :
          /\ df[i].SOURCEURL = ExampleUrl
          /\ page_calls[i].kind = "http_error"
          /\ parsed_events[i].description = BreakingNewsEvent

\* C9: the description of every event of _parse_csv is the page description
\* if there is one, else the page title if there is one, else the
\* URL-derived title, and it is never empty.
C9_DescriptionNeverEmpty ==
    \A i \in 1..Len(parsed_events) :
        LET page == page_calls[i]
            d == parsed_events[i].description
            got == page.kind = "ok" /\ df[i].SOURCEURL # NaN
        IN  /\ (got /\ PyTruthy(page.description)) => d = page.description
            /\ (got /\ ~PyTruthy(page.description) /\ PyTruthy(page.title)) => d = page.title
            /\ ~(got /\ (PyTruthy(page.description) \/ PyTruthy(page.title)))
                  => d = _extract_title_from_url(df[i].SOURCEURL)
            /\ d # <<>>
            /\ d # None

\* The number of rows of `rows` added at time v or later.
AddedSince(rows, v) == Cardinality({i \in 1..Len(rows) : rows[i].DATEADDED >= v})

\* C12: of a table of any number of rows, _parse_csv keeps the N = 10 rows
\* with the largest DATEADDED over the whole table (all rows if there are
\* fewer), and goes through them, and returns their events, in descending
\* DATEADDED order.
C12_KeepsMostRecent ==
    parse_pc \in {"rows", "returned"} =>
        /\ Len(df) = (IF Len(table) < NROWS THEN Len(table) ELSE NROWS)
        /\ \A i \in 1..Len(df) : \E j \in 1..Len(table) : df[i] = table[j]
        /\ \A i, j \in 1..Len(df) : i < j => df[i].DATEADDED >= df[j].DATEADDED
        /\ \A v \in {1, 2} :
              AddedSince(df, v) =
                  (IF AddedSince(table, v) < NROWS THEN AddedSince(table, v) ELSE NROWS)
        /\ \A i \in 1..Len(parsed_events) : parsed_events[i].dateadded = df[i].DATEADDED

-----------------------------------------------------------------------------
(* main() of main.py and of x_to_geojson.py, one call per step *)

\* The environment variables XFetcher.__init__ reads.
Credentials ==
    {"X_API_KEY", "X_API_KEY_SECRET", "X_ACCESS_TOKEN", "X_ACCESS_TOKEN_SECRET",
     "X_BEARER_TOKEN"}

\* The ones its check names.
RequiredCredentials == {"X_API_KEY", "X_API_KEY_SECRET", "X_BEARER_TOKEN"}

\* os.getenv(name) is truthy: the variable is set to a non-empty string.
getenv(name) == env[name] = "set"

\* any() in the place of all().
CredentialsAnyPresent == \E c \in RequiredCredentials : getenv(c)

\* all([self.api_key, self.api_key_secret, self.bearer_token])
CredentialsOk == \A c \in RequiredCredentials : getenv(c)

InitDriver ==
    /\ FetchIdle
    /\ PipeIdle
    /\ ParseIdle
    /\ PostsIdle
    /\ run_driver \in {"main", "x_to_geojson"}
    /\ env \in [Credentials -> {"unset", "empty", "set"}]
    /\ phase = "construct_fetcher"
    /\ net = <<>>
    /\ output_written = FALSE
    /\ status = -1
    /\ ended_by = "none"

\* An Exception reaches the handler of main(): main.py logs it and calls
\* sys.exit(1); x_to_geojson.py logs it and re-raises it, and the
\* interpreter ends with status 1.
Fatal ==
    /\ phase' = "exit"
    /\ status' = 1
    /\ ended_by' = "error"

\* fetcher = GDELTFetcher(...) / XFetcher(save_files=True).  XFetcher raises
\* ValueError when a required credential is missing; after that both
\* constructors only build objects and create the data directory, which can
\* fail.
ConstructFetcher ==
    /\ phase = "construct_fetcher"
    /\ \E o \in {"ok", "raise"} :
         IF (run_driver = "x_to_geojson" /\ ~CredentialsOk) \/ o = "raise"
         THEN Fatal
         ELSE phase' = "construct_summarizer" /\ UNCHANGED <<status, ended_by>>
    /\ UNCHANGED <<run_driver, env, net, output_written>>
    /\ UNCHANGED <<fetch_vars, pipe_vars, parse_vars, post_vars>>

\* summarizer = EventSummarizer(...): ollama.list() is called, and its
\* failure is logged and re-raised.
ConstructSummarizer ==
    /\ phase = "construct_summarizer"
    /\ net' = Append(net, "ollama.list")
    /\ \E o \in {"ok", "raise"} :
         IF o = "raise" THEN Fatal
         ELSE phase' = "fetch" /\ UNCHANGED <<status, ended_by>>
    /\ UNCHANGED <<run_driver, env, output_written>>
    /\ UNCHANGED <<fetch_vars, pipe_vars, parse_vars, post_vars>>

\* fetch_daily_report(today) / fetch_latest_posts(max_results=10): the feed
\* or the search is requested; a failure (no report within the window, a
\* transport error) reaches main(), a success goes on to the page requests
\* or the geocoder.
FetchPhase ==
    /\ phase = "fetch"
    /\ \E o \in {"ok", "raise"} :
         LET first == IF run_driver = "main" THEN "gdelt.get" ELSE "x.search"
             then  == IF run_driver = "main" THEN "article.get" ELSE "nominatim.geocode"
         IN  IF o = "raise"
             THEN net' = Append(net, first) /\ Fatal
             ELSE /\ net' = net \o <<first, then>>
                  /\ phase' = "summarize"
                  /\ UNCHANGED <<status, ended_by>>
    /\ UNCHANGED <<run_driver, env, output_written>>
    /\ UNCHANGED <<fetch_vars, pipe_vars, parse_vars, post_vars>>

\* summarize_events(...): every Exception of an event is caught inside.
SummarizePhase ==
    /\ phase = "summarize"
    /\ net' = Append(net, "ollama.generate")
    /\ phase' = "generate"
    /\ UNCHANGED <<run_driver, env, output_written, status, ended_by>>
    /\ UNCHANGED <<fetch_vars, pipe_vars, parse_vars, post_vars>>

\* geojson_gen.generate(summarized_events): every Exception of a record is
\* caught inside.
GeneratePhase ==
    /\ phase = "generate"
    /\ phase' = "save"
    /\ UNCHANGED <<run_driver, env, net, output_written, status, ended_by>>
    /\ UNCHANGED <<fetch_vars, pipe_vars, parse_vars, post_vars>>

\* geojson_gen.save(geojson_data, output_file), the last call of main():
\* the file is written and main() returns, or save re-raises.
SavePhase ==
    /\ phase = "save"
    /\ \E o \in {"ok", "raise"} :
         IF o = "raise" THEN Fatal /\ UNCHANGED output_written
         ELSE /\ output_written' = TRUE
              /\ phase' = "done"
              /\ status' = 0
              /\ ended_by' = "success"
    /\ UNCHANGED <<run_driver, env, net>>
    /\ UNCHANGED <<fetch_vars, pipe_vars, parse_vars, post_vars>>

\* The operator interrupts the run (Ctrl+C: SIGINT) or asks it to end
\* (SIGTERM).  main.py has installed signal_handler for both: sys.exit(0).
\* x_to_geojson.py installs nothing: SIGTERM kills the process (status
\* 143); SIGINT raises KeyboardInterrupt, which summarize_events catches
\* (it returns what it has and the run goes on) and which nothing else
\* catches, main()'s "except Exception" included: the interpreter ends on
\* the uncaught KeyboardInterrupt (status 130).
Signal ==
    /\ phase \in {"construct_fetcher", "construct_summarizer", "fetch", "summarize",
                  "generate", "save"}
    /\ \E sig \in {"SIGINT", "SIGTERM"} :
         IF run_driver = "main"
         THEN phase' = "exit" /\ status' = 0 /\ ended_by' = "signal"
         ELSE IF sig = "SIGINT" /\ phase = "summarize"
         THEN phase' = "generate" /\ UNCHANGED <<status, ended_by>>
         ELSE /\ phase' = "exit"
              /\ status' = (IF sig = "SIGINT" THEN 130 ELSE 143)
              /\ ended_by' = "signal"
    /\ UNCHANGED <<run_driver, env, net, output_written>>
    /\ UNCHANGED <<fetch_vars, pipe_vars, parse_vars, post_vars>>

NextDriver ==
    \/ ConstructFetcher
    \/ ConstructSummarizer
    \/ FetchPhase
    \/ SummarizePhase
    \/ GeneratePhase
    \/ SavePhase
    \/ Signal

SpecDriver == InitDriver /\ [][NextDriver]_vars

-----------------------------------------------------------------------------
(* Properties of the drivers *)

\* C14: under both drivers the process ends with status 0 when the run
\* succeeded or was ended by the operator's interrupt, in whatever phase,
\* and with a non-zero status when a fatal error ended it.
C14_ExitCodes ==
    /\ (status # -1) <=> (phase \in {"done", "exit"})
    /\ ended_by \in {"success", "signal"} => status = 0
    /\ ended_by = "error" => (status # 0 /\ status # -1)

\* C17: when one of the credentials the social fetcher requires is not set
\* (or is empty), the run under x_to_geojson.py never gets past the
\* construction of the fetcher: no network request is ever issued, the
\* output file is never written, and the run ends there, as a failure.
C17_ConfigErrorBeforeNetwork ==
    (/\ run_driver = "x_to_geojson"
     /\ \E c \in {"X_API_KEY", "X_API_KEY_SECRET", "X_BEARER_TOKEN"} : env[c] # "set") =>
        /\ net = <<>>
        /\ ~output_written
        /\ phase \in {"construct_fetcher", "exit"}
        /\ phase = "exit" => status \notin {0, -1}
        /\ ended_by = "error" => status = 1
        /\ ended_by # "success"

\* x_to_geojson.py was started with the bearer token missing and ended on
\* the ValueError of the constructor.
C17_Witness ==
    /\ run_driver = "x_to_geojson"
    /\ env["X_API_KEY"] = "set"
    /\ env["X_API_KEY_SECRET"] = "set"
    /\ env["X_BEARER_TOKEN"] = "unset"
    /\ phase = "exit"
    /\ ended_by = "error"
    /\ status = 1
    /\ net = <<>>

-----------------------------------------------------------------------------
(* XFetcher._process_posts *)

Digits == {"0", "1", "2", "3", "4", "5", "6", "7", "8", "9"}

Letters == {LowerLetters[k] : k \in 1..Len(LowerLetters)} \cup {UpperLetters[k] : k \in 1..Len(UpperLetters)}

\* \w
IsWordChar(c) == c \in Letters \/ c \in Digits \/ c = "_"

\* [\w\s,]
InClass(c) == IsWordChar(c) \/ c \in Whitespace \/ c = ","

RECURSIVE RunLen(_, _)
\* How many characters of the class follow one another from position p on.
RunLen(text, p) ==
    IF p > Len(text) \/ ~InClass(text[p]) THEN 0 ELSE 1 + RunLen(text, p + 1)

\* ([\w\s,]+)(?=\s|$) tried at position p: the length of the group, 0 if
\* there is no match.  The group is greedy and gives characters back until
\* what follows it is a whitespace character or the end of the text.
GroupLen(text, p) ==
    LET ends == {n \in 1..RunLen(text, p) :
                    p + n > Len(text) \/ text[p + n] \in Whitespace}
    IN  IF ends = {} THEN 0 ELSE CHOOSE n \in ends : \A m \in ends : m <= n

\* The literal prefixes of the three alternatives of the pattern at line
\* 132, in the order they are tried.
Prefixes == << <<"i", "n", " ">>, <<"a", "t", " ">>, <<"n", "e", "a", "r", " ">> >>

StartsWith(text, p, lit) ==
    p + Len(lit) - 1 <= Len(text) /\ SubSeq(text, p, p + Len(lit) - 1) = lit

\* The pattern tried at position p: the group captured and where the match
\* ends.
MatchAt(text, p) ==
    LET hits == {k \in 1..Len(Prefixes) :
                    StartsWith(text, p, Prefixes[k])
                    /\ GroupLen(text, p + Len(Prefixes[k])) > 0}
    IN  IF hits = {} THEN [ok |-> FALSE, group |-> <<>>, next |-> p + 1]
        ELSE LET k == CHOOSE h \in hits : \A j \in hits : h <= j
                 g == p + Len(Prefixes[k])
                 n == GroupLen(text, g)
             IN  [ok |-> TRUE, group |-> SubSeq(text, g, g + n - 1), next |-> g + n]

RECURSIVE findall(_, _)
\* re.findall(pattern, text) from position p on: the non-overlapping matches,
\* left to right; each is the one group that took part in the match.
findall(text, p) ==
    IF p > Len(text) THEN <<>>
    ELSE LET m == MatchAt(text, p) IN
         IF m.ok THEN <<m.group>> \o findall(text, m.next)
         ELSE findall(text, p + 1)

\* locations.extend([loc.strip() for loc in match if loc.strip()]) over the
\* matches.
TextLocations(text) ==
    LET found == findall(text, 1) IN
    NonEmptyParts([k \in 1..Len(found) |-> strip(found[k])])

\* post['entities']['annotations'] is present and is JSON null: iterating it
\* raises TypeError, which the handler at line 173 catches.
AnnotationsUnreadable(post) ==
    /\ "entities" \in DOMAIN post
    /\ "annotations" \in DOMAIN post.entities
    /\ post.entities.annotations = None

\* The normalized_text of the annotations of type 'Place', in order.
PlaceNames(post) ==
    IF "entities" \in DOMAIN post /\ "annotations" \in DOMAIN post.entities
    THEN LET places == SelectSeq(post.entities.annotations, LAMBDA a : a.type = "Place")
         IN  [k \in 1..Len(places) |-> places[k].normalized_text]
    ELSE <<>>

\* The text matches ahead of the place annotations.
LocationsTextFirst(post) == TextLocations(Get(post, "text", <<>>)) \o PlaceNames(post)

\* The list "locations" of one post: the place annotations, then the text
\* matches.
Locations(post) == PlaceNames(post) \o TextLocations(Get(post, "text", <<>>))

\* What one call of self.geocoder.geocode(location_name, timeout=10) does:
\* a Location with its coordinates, None, GeocoderTimedOut, another
\* exception.
GeocodeOutcomes ==
    {[kind |-> "found", latitude |-> 48, longitude |-> 2],
     [kind |-> "found", latitude |-> -12, longitude |-> -77],
     [kind |-> "none", latitude |-> 0, longitude |-> 0],
     [kind |-> "timeout", latitude |-> 0, longitude |-> 0],
     [kind |-> "error", latitude |-> 0, longitude |-> 0]}

SpringfieldText == <<"A", " ", "f", "i", "r", "e", " ", "b", "r", "o", "k", "e", " ", "o", "u", "t", " ", "i", "n", " ", "S", "p", "r", "i", "n", "g", "f", "i", "e", "l", "d", " ", "y", "e", "s", "t", "e", "r", "d", "a", "y">>

\* The posts of the lists of several posts.
SamplePosts ==
    { [id |-> "a", text |-> <<"S", "t", "o", "r", "m", " ", "i", "n", " ", "R", "o", "m", "e">>,
       entities |-> [annotations |-> << [type |-> "Place", normalized_text |-> <<"P", "a", "r", "i", "s">>],
                                        [type |-> "Person", normalized_text |-> <<"B", "o", "b">>] >>]],
      [id |-> "b", text |-> SpringfieldText],
      [id |-> "c", text |-> <<"h", "e", "l", "l", "o">>, entities |-> [urls |-> <<>>]],
      [id |-> "d", text |-> <<"F", "l", "o", "o", "d", " ", "i", "n", " ", "K", "y", "i", "v">>, entities |-> [annotations |-> None]] }

\* The words of the texts tried exhaustively.
Words == {<<"i", "n">>, <<"a", "t">>, <<"n", "e", "a", "r">>, <<"f", "r", "o", "m">>, <<"R", "o", "m", "e">>, <<"n", "o", "w", ".">>}

\* Every text of at most MaxWords of these words, separated by blanks.
WordTexts == {Join(ws, " ") : ws \in SeqsUpTo(Words, MaxWords)}

InitPosts ==
    /\ FetchIdle
    /\ PipeIdle
    /\ ParseIdle
    /\ DriverIdle
    /\ posts \in SeqsUpTo(SamplePosts, MaxPosts)
                   \cup {<<[id |-> "w", text |-> t]>> : t \in WordTexts}
    /\ post_i = 1
    /\ cand_i = 1
    /\ geocode_calls = <<>>
    /\ processed_posts = <<>>
    /\ pacing = <<>>
    /\ posts_pc = "loop"

\* One iteration of "for location_name in locations": the geocoder is
\* called; a Location appends the processed post and breaks out of the
\* loop, anything else goes on to the next candidate.
GeocodeCandidate ==
    /\ posts_pc = "loop"
    /\ post_i <= Len(posts)
    /\ ~AnnotationsUnreadable(posts[post_i])
    /\ cand_i <= Len(Locations(posts[post_i]))
    /\ LET post == posts[post_i]
           location_name == Locations(post)[cand_i]
       IN  \E location \in GeocodeOutcomes :
             /\ geocode_calls' = Append(geocode_calls,
                                        [post |-> post_i, cand |-> cand_i,
                                         name |-> location_name, outcome |-> location])
             /\ IF location.kind = "found"
                THEN /\ processed_posts' =
                            Append(processed_posts,
                                   [id |-> post.id, text |-> Get(post, "text", <<>>),
                                    location |-> location_name,
                                    latitude |-> location.latitude,
                                    longitude |-> location.longitude])
                     /\ cand_i' = Len(Locations(post)) + 1
                ELSE /\ processed_posts' = processed_posts
                     /\ cand_i' = cand_i + 1
    /\ pacing' = Append(pacing, "geocode")
    /\ UNCHANGED <<posts, post_i, posts_pc>>
    /\ UNCHANGED <<fetch_vars, pipe_vars, parse_vars, drv_vars>>

\* The candidate loop of the post is over (by break or by exhaustion):
\* time.sleep(1), then the next post.
PostDone ==
    /\ posts_pc = "loop"
    /\ post_i <= Len(posts)
    /\ ~AnnotationsUnreadable(posts[post_i])
    /\ cand_i > Len(Locations(posts[post_i]))
    /\ pacing' = Append(pacing, "sleep")
    /\ post_i' = post_i + 1
    /\ cand_i' = 1
    /\ UNCHANGED <<posts, geocode_calls, processed_posts, posts_pc>>
    /\ UNCHANGED <<fetch_vars, pipe_vars, parse_vars, drv_vars>>

\* Collecting the candidates of the post raises: "except Exception" at line
\* 173 logs a warning and continues with the next post, past the sleep.
PostFails ==
    /\ posts_pc = "loop"
    /\ post_i <= Len(posts)
    /\ AnnotationsUnreadable(posts[post_i])
    /\ post_i' = post_i + 1
    /\ cand_i' = 1
    /\ UNCHANGED <<posts, geocode_calls, processed_posts, pacing, posts_pc>>
    /\ UNCHANGED <<fetch_vars, pipe_vars, parse_vars, drv_vars>>

\* The loop over the posts is over: the debug copy of processed_posts is
\* written (save_files) and the list is returned, or that write raises.
ProcessReturn ==
    /\ posts_pc = "loop"
    /\ post_i > Len(posts)
    /\ posts_pc' \in {"returned", "raised"}
    /\ UNCHANGED <<posts, post_i, cand_i, geocode_calls, processed_posts, pacing>>
    /\ UNCHANGED <<fetch_vars, pipe_vars, parse_vars, drv_vars>>

NextPosts == GeocodeCandidate \/ PostDone \/ PostFails \/ ProcessReturn

SpecPosts == InitPosts /\ [][NextPosts]_vars

-----------------------------------------------------------------------------
(* Properties of _process_posts *)

\* The geocoder calls made for the i-th post, in order.
CallsOf(i) == SelectSeq(geocode_calls, LAMBDA c : c.post = i)

\* The candidates of a post: its place annotations in order, then the
\* matches of its text in order.
Candidates(post) ==
    IF AnnotationsUnreadable(post) THEN <<>>
    ELSE PlaceNames(post) \o TextLocations(Get(post, "text", <<>>))

\* The i-th post has a call that returned a Location.
Resolved(i) == \E k \in 1..Len(CallsOf(i)) : CallsOf(i)[k].outcome.kind = "found"

\* The posts that resolved, in the order of the posts.
ResolvedPosts == SelectSeq([i \in 1..Len(posts) |-> i], Resolved)

\* C15: the candidates of a post are geocoded one at a time, the place
\* annotations before the text matches, each in its order; a call that
\* returns a Location is the last one of its post and gives the post's
\* record its name and coordinates; a call that returns nothing, times out
\* or raises is followed by the call for the next candidate; a post none of
\* whose candidates resolved has no record.  So every post has at most one
\* record and the records are in the order of the posts.
C15_FirstResolvedCandidate ==
    /\ \A a, b \in 1..Len(geocode_calls) : a < b => geocode_calls[a].post <= geocode_calls[b].post
    /\ \A i \in 1..Len(posts) :
          LET cs == CallsOf(i)
              ex == Candidates(posts[i])
          IN  /\ Len(cs) <= Len(ex)
              /\ \A k \in 1..Len(cs) :
                    /\ cs[k].cand = k
                    /\ cs[k].name = ex[k]
                    /\ cs[k].outcome.kind = "found" => k = Len(cs)
              /\ i > post_i => cs = <<>>
              /\ i < post_i => (Resolved(i) \/ Len(cs) = Len(ex))
    /\ Len(processed_posts) = Len(ResolvedPosts)
    /\ \A k \in 1..Len(processed_posts) :
          LET i == ResolvedPosts[k]
              last == CallsOf(i)[Len(CallsOf(i))]
          IN  /\ processed_posts[k].id = posts[i].id
              /\ processed_posts[k].location = last.name
              /\ processed_posts[k].latitude = last.outcome.latitude
              /\ processed_posts[k].longitude = last.outcome.longitude

\* Of two posts with the same two candidates, the first resolved on its
\* annotation and its text match was never geocoded; the annotation of the
\* second timed out, its text match resolved to nothing, and it was dropped.
C15_Witness ==
    /\ posts_pc = "returned"
    /\ Len(posts) = 2
    /\ Len(Candidates(posts[1])) = 2
    /\ Len(Candidates(posts[2])) = 2
    /\ Len(CallsOf(1)) = 1
    /\ CallsOf(1)[1].outcome.kind = "found"
    /\ Len(CallsOf(2)) = 2
    /\ CallsOf(2)[1].outcome.kind = "timeout"
    /\ CallsOf(2)[2].outcome.kind = "none"
    /\ Len(processed_posts) = 1
    /\ processed_posts[1].location = <<"P", "a", "r", "i", "s">>

\* C16: for the post "A fire broke out in Springfield yesterday" the first
\* candidate geocoded is "Springfield", and for a post whose text is one of
\* "in", "at", "near", "from" followed by a place name the first candidate
\* geocoded is that place name.
C16_ProposesPlaceName ==
    \A i \in 1..Len(posts) :
        (i < post_i /\ "entities" \notin DOMAIN posts[i]) =>
            /\ posts[i].text = SpringfieldText =>
                  (CallsOf(i) # <<>> /\ CallsOf(i)[1].name = <<"S", "p", "r", "i", "n", "g", "f", "i", "e", "l", "d">>)
            /\ \A w \in {<<"i", "n">>, <<"a", "t">>, <<"n", "e", "a", "r">>, <<"f", "r", "o", "m">>} :
                  posts[i].text = w \o <<" ">> \o <<"R", "o", "m", "e">> =>
                      (CallsOf(i) # <<>> /\ CallsOf(i)[1].name = <<"R", "o", "m", "e">>)

\* C18: between any two consecutive calls of the geocoder the pacing delay
\* is executed.
C18_DelayBetweenGeocodeCalls ==
    \A k \in 1..(Len(pacing) - 1) : ~(pacing[k] = "geocode" /\ pacing[k + 1] = "geocode")


=============================================================================
